---- MODULE Spec2Model ----
(***************************************************************************)
(* The task-processing engine of kmap_web_service: the worker pool of      *)
(* src/worker/worker.rs, the Redis-backed store of                         *)
(* src/services/redis_service.rs and the two web handlers that write the   *)
(* same records (task submission, task deletion).  Every step of a worker  *)
(* or handler is one operation on a shared resource (semaphore, store,     *)
(* file system); everything local between two such operations belongs to   *)
(* the step that precedes it.                                              *)
(***************************************************************************)
EXTENDS Integers, Sequences, FiniteSets, TLC

(* ------------------------------ bounds --------------------------------- *)

\* Number of submissions a behaviour may contain.
MaxTasks == 2

\* The same for the behaviours that also contain deletions.
WebTasks == 1

\* Wall-clock seconds after which the model's clock stops.
MaxTime == 2

\* Width of the model's stand-in for u64 (quota, used_quota are u64).
WordBits == 4

\* The quota a user is registered with (36000 s in the code), scaled.
DefaultQuota == 1

\* Number of workers main spawns (config.worker.worker_count).
NumWorkers == 2

\* Longest k-mer the hash functions are applied to (31 in the code's
\* contract: 2 bits per base in a u64).
MaxKmerLen == 5

\* Longest sequence the counting functions are handed, but for the
\* sequences of the code's own tests.
MaxSeqLen == 4

\* Longest k-mer the counting of one sequence is asked for.
MaxCountLen == 3

\* Most sequences in a collection handed to the counting, and the longest
\* of them.
MaxSeqs == 2

MaxListSeqLen == 2

\* The k-mer length process_task counts with (8 in the code) and the number
\* of k-mers it keeps (10 in the code), scaled.
TaskKmerLen == 2

TopCount == 2

\* Most records of an input file and the longest of them, but for the
\* files FileExamples adds.
MaxFileSeqs == 1

MaxFileSeqLen == 2

(* --------------------------- configuration ----------------------------- *)

Workers == 1..NumWorkers

TaskIds == 1..MaxTasks

\* The registered users.
Users == {"u1", "u2"}

\* The users whose sessions submit tasks; the others only use the dashboard.
Submitters == {"u1"}

U64Modulus == 2^WordBits

NoTask == 0

Null == [none |-> TRUE]

\* TaskStatus
Queued == "Queued"

Processing == "Processing"

Completed == "Completed"

Failed == "Failed"

\* The username a task was submitted under (TaskInfo.user, immutable).
TaskUser(t) == "u1"

(* ------------------------------- state --------------------------------- *)

VARIABLES
    maxConc,      \* config.worker.max_concurrent_tasks
    storeFaulty,  \* whether store operations may fail with a transport error
    taskLimit,    \* number of submissions the behaviour may contain
    permits,      \* free permits of the semaphore
    permit,       \* permit[w]: worker w holds a permit (_permit is live)
    pc,           \* pc[w]: the operation worker w performs next
    cur,          \* cur[w]: the task worker w popped
    res,          \* res[w]: outcome of the processing so far (process_result)
    ltask,        \* ltask[w]: the TaskInfo a worker read and is modifying
    luser,        \* luser[w]: the User a worker read and is modifying
    remaining,    \* remaining[w]: remaining_quota returned by get_user_quota
    started,      \* started[w]: time at which the timeout started
    users,        \* store: user:<name> records
    tasks,        \* store: task:<id> records
    queue,        \* store: the task_queue list
    file,         \* file[t]: the input file of t exists (fasta_path)
    resultDir,    \* resultDir[t]: the result directory of t exists
    comp,         \* comp[t]: the spawned computation of t: "idle" (never
                  \* spawned), "running", "done" (joined by the worker),
                  \* "detached" (running, its JoinHandle dropped by the
                  \* timeout), "detached_done"
    now,          \* wall clock, seconds, as last read (Utc::now, timers)
    nextId,       \* next fresh task id
    hpc,          \* web handler: next operation
    htask,        \* web handler: task id of the request
    huser,        \* web handler: the User it read and is modifying
    hrec,         \* web handler: the TaskInfo it created
    rmCount,      \* history: remove_file attempts on the input file of t
    pops,         \* history: pops[t] is the number of pops that returned t
    written,      \* history: the status last written to the store for t
    charged,      \* history: save_user stored the usage of t
    kmer,         \* the k-mer engine: its input, intermediate hash and output
    acct          \* history: acct[u] is the sum of the elapsed seconds of the
                  \* tasks of u that were stored Completed or Failed

wvars == <<permits, permit, pc, cur, res, ltask, luser, remaining, started>>

svars == <<users, tasks, queue, file, resultDir, comp>>

hvars == <<nextId, hpc, htask, huser, hrec>>

gvars == <<rmCount, pops, written, charged, acct>>

vars ==
    <<kmer, maxConc, storeFaulty, taskLimit, now, wvars, svars, hvars, gvars>>

(* ------------------------------ helpers -------------------------------- *)

\* Outcomes of one store operation: every RedisService method returns
\* Err(RedisError) when the connection or the command fails.
StoreOutcomes == IF storeFaulty THEN {"ok", "err"} ELSE {"ok"}

\* Variant: an acquisition that never waits.
SemAvailableNoWait(p) == TRUE

\* Variant: an acquisition that lets one worker too many through.
SemAvailableOffByOne(p) == p >= 0

\* semaphore.acquire().await completes only when a permit is free.
SemAvailable(p) == p > 0

\* A task record as create_and_queue_task builds it.
NewTask(u, t) ==
    [user |-> u, status |-> Queued, result |-> "None",
     submission_time |-> t, completion_time |-> -1]

\* A user record as handle_register builds it.
NewUser == [tasks |-> {}, quota |-> DefaultQuota, used_quota |-> 0]

\* user.quota - user.used_quota on u64, then .max(0) as u64: the subtraction
\* overflows when used_quota > quota; a build with overflow checks panics
\* there, a build without them wraps modulo 2^64.  max(0) on an unsigned
\* value changes nothing.
RemainingQuota(quota, used) ==
    IF used > quota
    THEN {[panic |-> TRUE, value |-> 0],
          [panic |-> FALSE, value |-> (quota - used + U64Modulus) % U64Modulus]}
    ELSE {[panic |-> FALSE, value |-> quota - used]}

\* completion_time.signed_duration_since(submission_time).num_seconds() as u64
ElapsedSeconds(t) == t.completion_time - t.submission_time

\* user.used_quota += seconds
AddUsage(used, seconds) == (used + seconds) % U64Modulus

\* What the spawned process_task can end with: Ok(result), Err(..) or a panic.
\* It returns FileNotFound when the input file is missing and an Io error
\* when the result directory is missing (File::create in
\* save_results_to_file); load_fasta and the k-mer engine panic on bad input.
CompOutcomes(t) ==
    IF ~file[t] THEN {"task_err"}
    ELSE IF ~resultDir[t] THEN {"task_err", "panic"}
    ELSE {"ok", "task_err", "panic"}

\* The instants the clock may show when it is read next: time passes between
\* any two steps, and the clock never runs backwards.
Later == now..MaxTime

\* The deadline tokio::time::timeout(Duration::from_secs(remaining_quota), ..)
\* puts on the computation has passed at instant t.
DeadlinePassed(w, t) == t >= started[w] + remaining[w]

\* Variant: a failed attempt puts the task back to Queued for a retry.
FinalStatusRetry(r) == IF r = "ok" THEN Completed ELSE Queued

\* The status and result worker_process finalizes with: Completed with the
\* result on Ok, Failed with None on every Err.
FinalStatus(r) == IF r = "ok" THEN Completed ELSE Failed

\* Variant: a timed-out task is finalized with the partial result.
FinalResultPartial(r) == IF r \in {"ok", "timeout"} THEN "Some" ELSE "None"

FinalResult(r) == IF r = "ok" THEN "Some" ELSE "None"

(* ------------------------------- Init ---------------------------------- *)

\* main: the semaphore is created with max_concurrent_tasks permits and
\* worker_count workers are spawned; no request is being handled.
InitService(workerCount, slots, faulty, limit) ==
    /\ maxConc \in slots
    /\ storeFaulty = faulty
    /\ taskLimit = limit
    /\ permits = maxConc
    /\ permit = [w \in Workers |-> FALSE]
    /\ pc = [w \in Workers |-> IF w <= workerCount THEN "acquire" ELSE "off"]
    /\ cur = [w \in Workers |-> NoTask]
    /\ res = [w \in Workers |-> "none"]
    /\ ltask = [w \in Workers |-> Null]
    /\ luser = [w \in Workers |-> Null]
    /\ remaining = [w \in Workers |-> 0]
    /\ started = [w \in Workers |-> 0]
    /\ comp = [t \in TaskIds |-> "idle"]
    /\ now = 0
    /\ hpc = "idle"
    /\ htask = NoTask
    /\ huser = Null
    /\ hrec = Null
    /\ rmCount = [t \in TaskIds |-> 0]
    /\ pops = [t \in TaskIds |-> 0]
    /\ charged = [t \in TaskIds |-> FALSE]
    /\ acct = [u \in Users |-> 0]

\* The store and the upload directories of a fresh installation: the
\* registered users, no task.
InitStore ==
    /\ users = [u \in Users |-> NewUser]
    /\ tasks = [t \in TaskIds |-> Null]
    /\ queue = <<>>
    /\ file = [t \in TaskIds |-> FALSE]
    /\ resultDir = [t \in TaskIds |-> FALSE]
    /\ nextId = 1
    /\ written = [t \in TaskIds |-> "none"]

\* A store the service is started on that holds a queue entry for task 1 of
\* u1 while the record of the task, of its owner, or both may be missing
\* (the store outlives the service and is not written by it alone).
InitStoreOrphan ==
    /\ \E ur \in {Null, [NewUser EXCEPT !.tasks = {1}]} :
         users = [u \in Users |-> IF u = TaskUser(1) THEN ur ELSE NewUser]
    /\ \E tr \in {Null, NewTask(TaskUser(1), 0)} :
         /\ tasks = [t \in TaskIds |-> IF t = 1 THEN tr ELSE Null]
         /\ written = [t \in TaskIds |->
                         IF t = 1 /\ tr # Null THEN Queued ELSE "none"]
    /\ queue = <<1>>
    /\ file = [t \in TaskIds |-> t = 1]
    /\ resultDir = [t \in TaskIds |-> t = 1]
    /\ nextId = 2

\* The k-mer engine is not being exercised on its own.
KmerOff == [pc |-> "off"]

InitWith(workerCount, slots, faulty, limit) ==
    /\ InitService(workerCount, slots, faulty, limit)
    /\ InitStore
    /\ kmer = KmerOff

\* worker_count workers, any number of permits up to it, a store that may
\* fail at any operation.
Init == InitWith(NumWorkers, 1..NumWorkers, TRUE, MaxTasks)

\* The same with a store that never fails.
InitReliable == InitWith(NumWorkers, 1..NumWorkers, FALSE, MaxTasks)

\* One worker beside the web handlers, a store that may fail.
InitWeb == InitWith(1, {1}, TRUE, WebTasks)

\* One worker beside the web handlers, a store that never fails.
InitWebReliable == InitWith(1, {1}, FALSE, WebTasks)

\* One worker started on a store with missing records; the store never
\* fails.
InitOrphan ==
    /\ InitService(1, {1}, FALSE, MaxTasks)
    /\ InitStoreOrphan
    /\ kmer = KmerOff

(* ------------------------------ workers -------------------------------- *)

\* The worker's locals after an iteration.
ClearLocals(w) ==
    /\ cur' = [cur EXCEPT ![w] = NoTask]
    /\ res' = [res EXCEPT ![w] = "none"]
    /\ ltask' = [ltask EXCEPT ![w] = Null]
    /\ luser' = [luser EXCEPT ![w] = Null]
    /\ remaining' = [remaining EXCEPT ![w] = 0]
    /\ started' = [started EXCEPT ![w] = 0]

\* Variant: the permit is kept where the code drops it.
KeepPermit(w) == UNCHANGED <<permits, permit>>

\* _permit is dropped: the semaphore gets the permit back.
DropPermit(w) ==
    /\ permits' = permits + 1
    /\ permit' = [permit EXCEPT ![w] = FALSE]

\* The end of the Ok(Some(task)) arm: the result of the finalize call is only
\* logged, _permit goes out of scope and the loop starts over.
EndIteration(w) ==
    /\ DropPermit(w)
    /\ ClearLocals(w)
    /\ pc' = [pc EXCEPT ![w] = "acquire"]

\* Variant: the error of a step of the async block is only logged and the
\* block goes on to get_user_quota.
FailEarlyLogged(w, e) ==
    /\ res' = res
    /\ pc' = [pc EXCEPT ![w] = "quota"]
    /\ ltask' = [ltask EXCEPT ![w] = Null]

\* Variant: an Err of the async block ends the iteration without the
\* finalize call.
FailEarlySkipsFinalize(w, e) ==
    /\ res' = [res EXCEPT ![w] = "none"]
    /\ pc' = [pc EXCEPT ![w] = "acquire"]
    /\ ltask' = [ltask EXCEPT ![w] = Null]

\* The async block ended with Err(e) before process_task_with_timeout.
FailEarly(w, e) ==
    /\ res' = [res EXCEPT ![w] = e]
    /\ pc' = [pc EXCEPT ![w] = "fin_get"]
    /\ ltask' = [ltask EXCEPT ![w] = Null]

\* semaphore.acquire().await
Acquire(w) ==
    /\ pc[w] = "acquire"
    /\ SemAvailable(permits)
    /\ permits' = permits - 1
    /\ permit' = [permit EXCEPT ![w] = TRUE]
    /\ pc' = [pc EXCEPT ![w] = "pop"]
    /\ UNCHANGED <<kmer, maxConc, storeFaulty, taskLimit, now, cur, res, ltask, luser,
                   remaining, started, svars, hvars, gvars>>

\* Variant: the pop reads the oldest element and leaves it in the list.
DequeuePeek(q) == q

\* The list after rpop took its oldest element.
Dequeue(q) == Tail(q)

\* redis_service.pop_task(): rpop of the list lpush fills.  On Ok(None) and on
\* Err the permit is dropped before the sleep.
Pop(w) ==
    /\ pc[w] = "pop"
    /\ \E o \in StoreOutcomes :
         IF o = "ok" /\ queue # <<>>
         THEN /\ cur' = [cur EXCEPT ![w] = Head(queue)]
              /\ queue' = Dequeue(queue)
              /\ pops' = [pops EXCEPT ![Head(queue)] = @ + 1]
              /\ pc' = [pc EXCEPT ![w] = "mark_get"]
              /\ UNCHANGED <<permits, permit>>
         ELSE /\ DropPermit(w)
              /\ pc' = [pc EXCEPT ![w] = "sleep"]
              /\ UNCHANGED <<cur, queue, pops>>
    /\ UNCHANGED <<kmer, maxConc, storeFaulty, taskLimit, now, res, ltask, luser,
                   remaining, started, users, tasks, file, resultDir, comp,
                   hvars, rmCount, written, charged, acct>>

\* sleep(Duration::from_secs(1)) is over.
Wake(w) ==
    /\ pc[w] = "sleep"
    /\ pc' = [pc EXCEPT ![w] = "acquire"]
    /\ UNCHANGED <<kmer, maxConc, storeFaulty, taskLimit, now, permits, permit, cur, res, ltask,
                   luser, remaining, started, svars, hvars, gvars>>

\* update_task_status: get_task
MarkGet(w) ==
    /\ pc[w] = "mark_get"
    /\ \E o \in StoreOutcomes :
         IF o = "ok" /\ tasks[cur[w]] # Null
         THEN /\ ltask' = [ltask EXCEPT ![w] = tasks[cur[w]]]
              /\ pc' = [pc EXCEPT ![w] = "mark_save"]
              /\ UNCHANGED res
         ELSE FailEarly(w, IF o = "ok" THEN "not_found" ELSE "redis")
    /\ UNCHANGED <<kmer, maxConc, storeFaulty, taskLimit, now, permits, permit, cur, luser,
                   remaining, started, svars, hvars, gvars>>

\* Variant: the Processing status is set on the copy but not saved before
\* the quota is read.
MarkSaveDeferred(w) ==
    /\ pc[w] = "mark_save"
    /\ pc' = [pc EXCEPT ![w] = "quota"]
    /\ ltask' = [ltask EXCEPT ![w] = Null]
    /\ UNCHANGED <<kmer, maxConc, storeFaulty, taskLimit, now, permits, permit, cur,
                   res, luser, remaining, started, svars, hvars, gvars>>

\* update_task_status: task.status = status; save_task
MarkSave(w) ==
    /\ pc[w] = "mark_save"
    /\ \E o \in StoreOutcomes :
         IF o = "ok"
         THEN /\ tasks' = [tasks EXCEPT ![cur[w]] =
                              [ltask[w] EXCEPT !.status = Processing]]
              /\ written' = [written EXCEPT ![cur[w]] = Processing]
              /\ ltask' = [ltask EXCEPT ![w] = Null]
              /\ pc' = [pc EXCEPT ![w] = "quota"]
              /\ UNCHANGED res
         ELSE /\ FailEarly(w, "redis")
              /\ UNCHANGED <<tasks, written>>
    /\ UNCHANGED <<kmer, maxConc, storeFaulty, taskLimit, now, permits, permit, cur,
                   luser, remaining, started, users, queue, file, resultDir,
                   comp, hvars, rmCount, pops, charged, acct>>

\* get_user_quota, and on Ok the start of process_task_with_timeout: the
\* computation is spawned and the timeout starts.  A panic of the subtraction
\* unwinds the worker's task: its locals, _permit among them, are dropped and
\* the worker is gone.
Quota(w) ==
    /\ pc[w] = "quota"
    /\ now' \in Later
    /\ LET t == cur[w]
           u == users[TaskUser(t)]
       IN \E o \in StoreOutcomes :
            IF o = "err" \/ u = Null
            THEN /\ FailEarly(w, IF o = "err" THEN "redis" ELSE "not_found")
                 /\ UNCHANGED <<permits, permit, cur, luser, remaining,
                                started, comp>>
            ELSE \E r \in RemainingQuota(u.quota, u.used_quota) :
                      IF r.panic
                      THEN /\ DropPermit(w)
                           /\ ClearLocals(w)
                           /\ pc' = [pc EXCEPT ![w] = "dead"]
                           /\ UNCHANGED comp
                      ELSE IF r.value = 0
                      THEN /\ FailEarly(w, "quota_exceeded")
                           /\ UNCHANGED <<permits, permit, cur, luser,
                                          remaining, started, comp>>
                      ELSE /\ remaining' = [remaining EXCEPT ![w] = r.value]
                           /\ started' = [started EXCEPT ![w] = now']
                           /\ comp' = [comp EXCEPT ![t] = "running"]
                           /\ pc' = [pc EXCEPT ![w] = "exec"]
                           /\ UNCHANGED <<permits, permit, cur, res, ltask,
                                          luser>>
    /\ UNCHANGED <<kmer, maxConc, storeFaulty, taskLimit, users, tasks, queue, file,
                   resultDir, hvars, gvars>>

\* Variant: a panic of the computation is not caught and ends the worker.
AfterExecPanicKills(r) == IF r = "panic" THEN "dead" ELSE "rm"

\* Variant: a timeout returns its error before the input file is removed.
AfterExecTimeoutReturns(r) == IF r = "timeout" THEN "fin_get" ELSE "rm"

\* process_task_with_timeout after the timeout returned: the removal of the
\* input file comes next, whatever the result.
AfterExec(r) == "rm"

\* The timeout's inner future, the JoinHandle of the spawned process_task, is
\* ready: Ok(Ok(result)), Ok(Err(e)) or a JoinError (panic).
ExecDone(w) ==
    /\ pc[w] = "exec"
    /\ \E o \in CompOutcomes(cur[w]) :
         /\ res' = [res EXCEPT ![w] = o]
         /\ pc' = [pc EXCEPT ![w] = AfterExec(o)]
    /\ comp' = [comp EXCEPT ![cur[w]] = "done"]
    /\ UNCHANGED <<kmer, maxConc, storeFaulty, taskLimit, now, permits, permit, cur, ltask,
                   luser, remaining, started, users, tasks, queue, file,
                   resultDir, hvars, gvars>>

\* The deadline passes first: the timeout returns Err(Elapsed) and drops the
\* JoinHandle, which detaches the spawned computation; it keeps running.
ExecTimeout(w) ==
    /\ pc[w] = "exec"
    /\ now' \in Later
    /\ DeadlinePassed(w, now')
    /\ res' = [res EXCEPT ![w] = "timeout"]
    /\ pc' = [pc EXCEPT ![w] = AfterExec("timeout")]
    /\ comp' = [comp EXCEPT ![cur[w]] = "detached"]
    /\ UNCHANGED <<kmer, maxConc, storeFaulty, taskLimit, permits, permit, cur, ltask,
                   luser, remaining, started, users, tasks, queue, file,
                   resultDir, hvars, gvars>>

\* A detached computation ends.
DetachedFinish(t) ==
    /\ comp[t] = "detached"
    /\ comp' = [comp EXCEPT ![t] = "detached_done"]
    /\ UNCHANGED <<kmer, maxConc, storeFaulty, taskLimit, now, wvars, users, tasks, queue, file,
                   resultDir, hvars, gvars>>

\* What process_task_with_timeout returns after the removal of the input
\* file: Err(Io) when the removal failed, else the outcome of the execution.
AfterRemove(removed, r) == IF removed THEN r ELSE "io"

\* tokio::fs::remove_file(&task_path_delete)
Rm(w) ==
    /\ pc[w] = "rm"
    /\ LET t == cur[w] IN
       \E o \in (IF file[t] THEN {"ok", "err"} ELSE {"err"}) :
         /\ file' = [file EXCEPT ![t] = IF o = "ok" THEN FALSE ELSE @]
         /\ res' = [res EXCEPT ![w] = AfterRemove(o = "ok", @)]
         /\ rmCount' = [rmCount EXCEPT ![t] = @ + 1]
    /\ pc' = [pc EXCEPT ![w] = "fin_get"]
    /\ UNCHANGED <<kmer, maxConc, storeFaulty, taskLimit, now, permits, permit, cur, ltask,
                   luser, remaining, started, users, tasks, queue, resultDir,
                   comp, hvars, pops, written, charged, acct>>

\* Variant: an Io error ends the iteration without a finalize call.
FinalizesUnlessIo(r) == r # "io"

\* worker_process calls update_task_result_user_quota in the Ok arm and in
\* the Err arm of process_result: every outcome is finalized.
Finalizes(r) == TRUE

\* update_task_result_user_quota: get_task, then status, result and
\* completion_time are set on the copy.
FinGet(w) ==
    /\ pc[w] = "fin_get"
    /\ now' \in Later
    /\ \E o \in StoreOutcomes :
         IF o = "ok" /\ tasks[cur[w]] # Null /\ Finalizes(res[w])
         THEN /\ ltask' = [ltask EXCEPT ![w] =
                     [tasks[cur[w]] EXCEPT !.status = FinalStatus(res[w]),
                                           !.result = FinalResult(res[w]),
                                           !.completion_time = now']]
              /\ pc' = [pc EXCEPT ![w] = "fin_getuser"]
              /\ UNCHANGED <<permits, permit, cur, res, luser, remaining,
                             started>>
         ELSE EndIteration(w)
    /\ UNCHANGED <<kmer, maxConc, storeFaulty, taskLimit, svars, hvars, gvars>>

\* Variant: when the owner's record is missing the usage is skipped and the
\* task is saved all the same.
FinGetUserLenient(w) ==
    /\ pc[w] = "fin_getuser"
    /\ pc' = [pc EXCEPT ![w] = "fin_savetask"]
    /\ UNCHANGED <<kmer, maxConc, storeFaulty, taskLimit, now, permits, permit, cur,
                   res, ltask, luser, remaining, started, svars, hvars, gvars>>

\* update_task_result_user_quota: get_user(&task.user), then
\* user.used_quota += seconds on the copy.
FinGetUser(w) ==
    /\ pc[w] = "fin_getuser"
    /\ \E o \in StoreOutcomes :
         IF o = "ok" /\ users[ltask[w].user] # Null
         THEN /\ luser' = [luser EXCEPT ![w] =
                     [users[ltask[w].user] EXCEPT !.used_quota =
                          AddUsage(@, ElapsedSeconds(ltask[w]))]]
              /\ pc' = [pc EXCEPT ![w] = "fin_saveuser"]
              /\ UNCHANGED <<permits, permit, cur, res, ltask, remaining,
                             started>>
         ELSE EndIteration(w)
    /\ UNCHANGED <<kmer, maxConc, storeFaulty, taskLimit, now, svars, hvars, gvars>>

\* update_task_result_user_quota: save_user
FinSaveUser(w) ==
    /\ pc[w] = "fin_saveuser"
    /\ \E o \in StoreOutcomes :
         IF o = "ok"
         THEN /\ users' = [users EXCEPT ![ltask[w].user] = luser[w]]
              /\ charged' = [charged EXCEPT ![cur[w]] = TRUE]
              /\ pc' = [pc EXCEPT ![w] = "fin_savetask"]
              /\ UNCHANGED <<permits, permit, cur, res, ltask, luser,
                             remaining, started>>
         ELSE /\ EndIteration(w)
              /\ UNCHANGED <<users, charged>>
    /\ UNCHANGED <<kmer, maxConc, storeFaulty, taskLimit, now, tasks, queue, file,
                   resultDir, comp, hvars, rmCount, pops, written, acct>>

\* update_task_result_user_quota: save_task; the iteration ends either way.
FinSaveTask(w) ==
    /\ pc[w] = "fin_savetask"
    /\ \E o \in StoreOutcomes :
         IF o = "ok"
         THEN /\ tasks' = [tasks EXCEPT ![cur[w]] = ltask[w]]
              /\ written' = [written EXCEPT ![cur[w]] = ltask[w].status]
              /\ acct' = [acct EXCEPT ![ltask[w].user] =
                              @ + ElapsedSeconds(ltask[w])]
         ELSE UNCHANGED <<tasks, written, acct>>
    /\ EndIteration(w)
    /\ UNCHANGED <<kmer, maxConc, storeFaulty, taskLimit, now, users, queue, file,
                   resultDir, comp, hvars, rmCount, pops, charged>>

(* ---------------------------- web handlers ----------------------------- *)

\* A handler returned (Ok or Err): the request is over.
HandlerReturn ==
    /\ hpc' = "idle"
    /\ htask' = NoTask
    /\ huser' = Null
    /\ hrec' = Null

\* process_upload up to the first store operation: the upload is written to
\* fasta_path, create_and_queue_task draws a fresh id, creates the result
\* directory and builds the TaskInfo, and update_user_and_queue_task reads the
\* user and pushes the id onto the copy's task list.
SubmitBegin(u) ==
    /\ hpc = "idle"
    /\ nextId <= taskLimit
    /\ now' \in Later
    /\ nextId' = nextId + 1
    /\ file' = [file EXCEPT ![nextId] = TRUE]
    /\ resultDir' = [resultDir EXCEPT ![nextId] = TRUE]
    /\ \E o \in StoreOutcomes :
         IF o = "ok" /\ users[u] # Null
         THEN /\ hpc' = "s_saveuser"
              /\ htask' = nextId
              /\ hrec' = NewTask(u, now')
              /\ huser' = [users[u] EXCEPT !.tasks = @ \cup {nextId}]
         ELSE HandlerReturn
    /\ UNCHANGED <<kmer, maxConc, storeFaulty, taskLimit, wvars, users, tasks, queue, comp,
                   gvars>>

\* update_user_and_queue_task: save_user
SubmitSaveUser ==
    /\ hpc = "s_saveuser"
    /\ \E o \in StoreOutcomes :
         IF o = "ok"
         THEN /\ users' = [users EXCEPT ![hrec.user] = huser]
              /\ hpc' = "s_savetask"
              /\ UNCHANGED <<htask, huser, hrec>>
         ELSE /\ HandlerReturn
              /\ UNCHANGED users
    /\ UNCHANGED <<kmer, maxConc, storeFaulty, taskLimit, now, wvars, tasks, queue, file,
                   resultDir, comp, nextId, gvars>>

\* update_user_and_queue_task: save_task
SubmitSaveTask ==
    /\ hpc = "s_savetask"
    /\ \E o \in StoreOutcomes :
         IF o = "ok"
         THEN /\ tasks' = [tasks EXCEPT ![htask] = hrec]
              /\ written' = [written EXCEPT ![htask] = hrec.status]
              /\ hpc' = "s_queue"
              /\ UNCHANGED <<htask, huser, hrec>>
         ELSE /\ HandlerReturn
              /\ UNCHANGED <<tasks, written>>
    /\ UNCHANGED <<kmer, maxConc, storeFaulty, taskLimit, now, wvars, users, queue,
                   file, resultDir, comp, nextId, rmCount, pops, charged, acct>>

\* update_user_and_queue_task: queue_task (lpush)
SubmitQueue ==
    /\ hpc = "s_queue"
    /\ \E o \in StoreOutcomes :
         queue' = IF o = "ok" THEN Append(queue, htask) ELSE queue
    /\ HandlerReturn
    /\ UNCHANGED <<kmer, maxConc, storeFaulty, taskLimit, now, wvars, users, tasks, file,
                   resultDir, comp, nextId, gvars>>

\* delete_task: get_user of the session's user, then
\* user.tasks.retain(|t| t != &task_id) on the copy.
DeleteBegin(u, t) ==
    /\ hpc = "idle"
    /\ t < nextId
    /\ \E o \in StoreOutcomes :
         IF o = "ok" /\ users[u] # Null
         THEN /\ hpc' = "d_saveuser"
              /\ htask' = t
              /\ huser' = [name |-> u,
                           rec |-> [users[u] EXCEPT !.tasks = @ \ {t}]]
              /\ UNCHANGED hrec
         ELSE HandlerReturn
    /\ UNCHANGED <<kmer, maxConc, storeFaulty, taskLimit, now, wvars, svars, nextId, gvars>>

\* delete_task: save_user
DeleteSaveUser ==
    /\ hpc = "d_saveuser"
    /\ \E o \in StoreOutcomes :
         IF o = "ok"
         THEN /\ users' = [users EXCEPT ![huser.name] = huser.rec]
              /\ hpc' = "d_gettask"
              /\ huser' = Null
              /\ UNCHANGED <<htask, hrec>>
         ELSE /\ HandlerReturn
              /\ UNCHANGED users
    /\ UNCHANGED <<kmer, maxConc, storeFaulty, taskLimit, now, wvars, tasks, queue, file,
                   resultDir, comp, nextId, gvars>>

\* delete_task: get_task and, when the record is there, remove_dir_all of its
\* result directory, whose failure (the directory is gone already) ends the
\* handler with AppError::File.
DeleteGetTask ==
    /\ hpc = "d_gettask"
    /\ \E o \in StoreOutcomes :
         IF o = "ok" /\ (tasks[htask] = Null \/ resultDir[htask])
         THEN /\ resultDir' = [resultDir EXCEPT ![htask] =
                                  IF tasks[htask] # Null THEN FALSE ELSE @]
              /\ hpc' = "d_del"
              /\ UNCHANGED <<htask, huser, hrec>>
         ELSE /\ HandlerReturn
              /\ UNCHANGED resultDir
    /\ UNCHANGED <<kmer, maxConc, storeFaulty, taskLimit, now, wvars, users, tasks, queue, file,
                   comp, nextId, gvars>>

\* delete_task: RedisService::delete_task (DEL task:<id>)
DeleteDel ==
    /\ hpc = "d_del"
    /\ \E o \in StoreOutcomes :
         tasks' = IF o = "ok" THEN [tasks EXCEPT ![htask] = Null] ELSE tasks
    /\ HandlerReturn
    /\ UNCHANGED <<kmer, maxConc, storeFaulty, taskLimit, now, wvars, users, queue, file,
                   resultDir, comp, nextId, gvars>>

(* ---------------------------- specification ---------------------------- *)

Next ==
    \/ \E w \in Workers :
         \/ Acquire(w)
         \/ Pop(w)
         \/ Wake(w)
         \/ MarkGet(w)
         \/ MarkSave(w)
         \/ Quota(w)
         \/ ExecDone(w)
         \/ ExecTimeout(w)
         \/ Rm(w)
         \/ FinGet(w)
         \/ FinGetUser(w)
         \/ FinSaveUser(w)
         \/ FinSaveTask(w)
    \/ \E t \in TaskIds : DetachedFinish(t)
    \/ \E u \in Submitters : SubmitBegin(u)
    \/ SubmitSaveUser
    \/ SubmitSaveTask
    \/ SubmitQueue

\* The steps of the deletion handler.
Delete ==
    \/ \E u \in Users, t \in TaskIds : DeleteBegin(u, t)
    \/ DeleteSaveUser
    \/ DeleteGetTask
    \/ DeleteDel

NextWeb == Next \/ Delete

\* The worker pool and the submission handler, with a store that may fail.
Spec == Init /\ [][Next]_vars

\* The same with a store that never fails.
SpecReliable == InitReliable /\ [][Next]_vars

\* One worker, the submission and the deletion handler, a store that may fail.
SpecWeb == InitWeb /\ [][NextWeb]_vars

\* The same with a store that never fails.
SpecWebReliable == InitWebReliable /\ [][NextWeb]_vars

\* The worker pool and the submission handler on a store with missing
\* records.
SpecOrphan == InitOrphan /\ [][Next]_vars

(* ---------------------------- k-mer engine ------------------------------ *)

\* The bases of a k-mer.
Bases == {"A", "C", "G", "T"}

\* KmerHash = u64: 2 bits per base, one base more than the longest k-mer.
KmerHashBits == 2 * (MaxKmerLen + 1)

KmerHashModulus == 2^KmerHashBits

\* Variant: G and T change codes.
BaseCodeSwapped(b) ==
    CASE b = "A" -> 0
      [] b = "C" -> 1
      [] b = "G" -> 3
      [] b = "T" -> 2

\* The 2-bit code kmer2hash ors into the hash for a base.
BaseCode(b) ==
    CASE b = "A" -> 0
      [] b = "C" -> 1
      [] b = "G" -> 2
      [] b = "T" -> 3

\* The base hash2kmer pushes for the two low bits of the hash.
CodeBase(c) ==
    CASE c = 0 -> "A"
      [] c = 1 -> "C"
      [] c = 2 -> "G"
      [] OTHER -> "T"

\* What kmer2hash ends with instead of a hash when it meets a symbol that is
\* none of A, C, G, T: panic!("Invalid base: ..").
InvalidBase == -1

\* Variant: a symbol that is no base is hashed like A.
Kmer2HashFromLenient(k, i, h) ==
    LET RECURSIVE Go(_, _)
        Go(j, g) ==
            IF j > Len(k) THEN g
            ELSE Go(j + 1, ((g * 4) % KmerHashModulus)
                             + (IF k[j] \in Bases THEN BaseCode(k[j]) ELSE 0))
    IN Go(i, h)

\* The loop of kmer2hash from base i on: hash_value <<= 2, then the code of
\* the base is ored into the two bits the shift cleared; any other symbol
\* panics.
RECURSIVE Kmer2HashFrom(_, _, _)
Kmer2HashFrom(k, i, h) ==
    IF i > Len(k) THEN h
    ELSE IF k[i] \notin Bases THEN InvalidBase
    ELSE Kmer2HashFrom(k, i + 1, ((h * 4) % KmerHashModulus) + BaseCode(k[i]))

kmer2hash(k) == Kmer2HashFrom(k, 1, 0)

\* The loop of hash2kmer: n times, push the base of hash & 3, hash >>= 2.
RECURSIVE Hash2KmerPush(_, _, _)
Hash2KmerPush(h, n, acc) ==
    IF n = 0 THEN acc
    ELSE Hash2KmerPush(h \div 4, n - 1, Append(acc, CodeBase(h % 4)))

\* kmer.into_iter().rev().collect()
Reversed(q) == [i \in 1..Len(q) |-> q[Len(q) + 1 - i]]

\* Variant: the bases are returned in the order they were pushed.
hash2kmerUnreversed(h, n) == Hash2KmerPush(h, n, <<>>)

hash2kmer(h, n) == Reversed(Hash2KmerPush(h, n, <<>>))

\* The symbol reverse_complement maps a symbol to: the complementary base
\* for a base in either case, the symbol itself for anything else.
Complement(b) ==
    CASE b \in {"A", "a"} -> "T"
      [] b \in {"T", "t"} -> "A"
      [] b \in {"C", "c"} -> "G"
      [] b \in {"G", "g"} -> "C"
      [] OTHER -> b

\* seq.iter().rev().map(complement).collect()
reverse_complement(q) == [i \in 1..Len(q) |-> Complement(q[Len(q) + 1 - i])]

\* The loop of revcom_hash: n times, rc_hash <<= 2, the complement 3 - x of
\* the two low bits of temp_hash is ored in, temp_hash >>= 2.
RECURSIVE RevcomHashLoop(_, _, _)
RevcomHashLoop(temp, n, rc) ==
    IF n = 0 THEN rc
    ELSE RevcomHashLoop(temp \div 4, n - 1,
                        ((rc * 4) % KmerHashModulus) + (3 - (temp % 4)))

\* Variant: the bases are complemented in place, not reversed.
revcom_hashUnreversed(h, n) == (4^n - 1) - h

revcom_hash(h, n) == RevcomHashLoop(h, n, 0)

\* The sequences over the bases of length 1 to MaxKmerLen.
Kmers == UNION {[1..n -> Bases] : n \in 1..MaxKmerLen}

\* The symbols of a sequence: the bases and N, the upper-case letter that is
\* no base.
Symbols == Bases \cup {"N"}

\* The sequences of length 1 to MaxKmerLen kmer2hash may be handed.
KmerInputs == UNION {[1..n -> Symbols] : n \in 1..MaxKmerLen}

\* The hashes of the k-mers of length n.
Hashes(n) == 0..(4^n - 1)

\* The engine is idle but for the hash functions.
InitEngine ==
    /\ InitService(0, {1}, FALSE, 0)
    /\ InitStore

\* The engine is handed a sequence to hash, or a hash and a length.
InitKmer ==
    /\ InitEngine
    /\ \/ \E x \in KmerInputs :
            kmer = [pc |-> "input", in |-> x, hash |-> 0, out |-> <<>>]
       \/ \E n \in 1..MaxKmerLen : \E h \in Hashes(n) :
            kmer = [pc |-> "hash_input", len |-> n, hash |-> h]

unchangedService ==
    UNCHANGED <<maxConc, storeFaulty, taskLimit, now, wvars, svars, hvars, gvars>>

\* kmer2hash is applied to the input: it returns the hash or panics.
KmerHash ==
    /\ kmer.pc = "input"
    /\ LET h == kmer2hash(kmer.in) IN
         kmer' = IF h = InvalidBase
                 THEN [kmer EXCEPT !.pc = "panicked"]
                 ELSE [kmer EXCEPT !.pc = "hashed", !.hash = h]
    /\ unchangedService

\* hash2kmer is applied to the hash, with the length of the input.
KmerUnhash ==
    /\ kmer.pc = "hashed"
    /\ kmer' = [kmer EXCEPT !.pc = "unhashed",
                            !.out = hash2kmer(kmer.hash, Len(kmer.in))]
    /\ unchangedService

\* revcom_hash is applied to the hash and the length; next to it, the hash
\* is turned into its k-mer, the k-mer is reverse-complemented and hashed.
KmerRevcom ==
    /\ kmer.pc = "hash_input"
    /\ kmer' = [pc |-> "revcom", len |-> kmer.len, hash |-> kmer.hash,
                rc |-> revcom_hash(kmer.hash, kmer.len),
                viaKmer |-> kmer2hash(reverse_complement(
                                         hash2kmer(kmer.hash, kmer.len)))]
    /\ unchangedService

NextKmer == KmerHash \/ KmerUnhash \/ KmerRevcom

\* The hash functions of the k-mer engine applied to every k-mer of the
\* bounded lengths.
SpecKmer == InitKmer /\ [][NextKmer]_vars

(* ---------------------------- k-mer counting ---------------------------- *)

\* The symbols of the sequences the counting functions are handed: the
\* upper-case letters of Symbols and a lower-case letter.
SeqSymbols == Symbols \cup {"a"}

\* b.is_ascii_uppercase()
IsAsciiUppercase(b) == b \in Symbols

\* valid_bases = [b'A', b'T', b'C', b'G']
ValidBases == Bases

\* Option<(KmerHash, usize)>, and the panic of an out-of-range slice.
None == [kind |-> "none"]

Some(h, e) == [kind |-> "some", hash |-> h, end |-> e]

SlicePanic == [kind |-> "panic"]

\* sequence_length.saturating_sub(kmer_length)
SaturatingSub(a, b) == IF a >= b THEN a - b ELSE 0

\* The loop of find_first_valid_kmer from position i (counted from 0) on:
\* for i in start_pos..=len.saturating_sub(L), the slice
\* &sequence[i..i+L] (which panics when i+L is past the end), the test of
\* its symbols, and the return of its hash and of i+L.
RECURSIVE FindFrom(_, _, _)
FindFrom(s, L, i) ==
    IF i > SaturatingSub(Len(s), L) THEN None
    ELSE IF i + L > Len(s) THEN SlicePanic
    ELSE IF \A p \in (i + 1)..(i + L) : s[p] \in ValidBases
    THEN Some(kmer2hash(SubSeq(s, i + 1, i + L)), i + L)
    ELSE FindFrom(s, L, i + 1)

find_first_valid_kmer(s, L, start) == FindFrom(s, L, start)

\* HashMap<KmerHash, u32>: a function from the hashes it holds to their
\* counts.
EmptyTable == [h \in {} |-> 0]

\* The count a table holds for a hash, 0 for a hash it does not hold.
Get(t, h) == IF h \in DOMAIN t THEN t[h] ELSE 0

\* *table.entry(h).or_insert(0) += n
AddCount(t, h, n) ==
    [x \in DOMAIN t \cup {h} |-> Get(t, x) + (IF x = h THEN n ELSE 0)]

\* The merge of one table into another, entry by entry.
MergeTables(t, r) == [x \in DOMAIN t \cup DOMAIN r |-> Get(t, x) + Get(r, x)]

\* What a counting function ends with: a table, or a panic.
Returned(t) == [ok |-> TRUE, table |-> t]

Panicked == [ok |-> FALSE]

\* hash_mask = (1 << (2 * kmer_length)) - 1
HashMask(L) == 4^L - 1

\* ((kmer_hash << 2) & hash_mask) | base_to_num(base)
StreamHash(h, L, b) ==
    (((h * 4) % KmerHashModulus) % (HashMask(L) + 1)) + BaseCode(b)

\* The while loop of count_kmers_in_one_sequence from position i on, with
\* the hash h of the window that ends at i and the table t so far.
RECURSIVE CountLoop(_, _, _, _, _)
CountLoop(s, L, h, i, t) ==
    IF i >= Len(s) THEN Returned(t)
    ELSE IF s[i + 1] \in ValidBases
    THEN LET nh == StreamHash(h, L, s[i + 1])
         IN CountLoop(s, L, nh, i + 1, AddCount(t, nh, 1))
    ELSE LET r == find_first_valid_kmer(s, L, i + 1)
         IN CASE r.kind = "some" ->
                   CountLoop(s, L, r.hash, r.end, AddCount(t, r.hash, 1))
              [] r.kind = "none" -> Returned(t)
              [] OTHER -> Panicked

\* The forward pass of count_kmers_in_one_sequence: the upper-case test,
\* the seed with the first valid window, the loop.
ForwardPass(s, L) ==
    IF \E p \in 1..Len(s) : ~IsAsciiUppercase(s[p]) THEN Panicked
    ELSE LET r == find_first_valid_kmer(s, L, 0)
         IN CASE r.kind = "some" ->
                   CountLoop(s, L, r.hash, r.end, AddCount(EmptyTable, r.hash, 1))
              [] r.kind = "none" -> Returned(EmptyTable)
              [] OTHER -> Panicked

\* The sum of the counts a table holds for the hashes of a set.
RECURSIVE SumCounts(_, _)
SumCounts(t, hs) ==
    IF hs = {} THEN 0
    ELSE LET h == CHOOSE x \in hs : TRUE
         IN t[h] + SumCounts(t, hs \ {h})

\* rc_table: the count of every hash of the table is added to the entry of
\* its reverse-complement hash.
RcTable(t, L) ==
    [x \in {revcom_hash(h, L) : h \in DOMAIN t} |->
        SumCounts(t, {h \in DOMAIN t : revcom_hash(h, L) = x})]

\* Variant: the reverse-complement counts replace the forward counts.
RevcomMergeReplacing(t, L) == RcTable(t, L)

\* if revcom_mode: rc_table is built and merged into kmer_table.
RevcomMerge(t, L) == MergeTables(t, RcTable(t, L))

count_kmers_in_one_sequence(s, L, revcom_mode) ==
    LET fwd == ForwardPass(s, L)
    IN IF fwd.ok /\ revcom_mode
       THEN Returned(RevcomMerge(fwd.table, L))
       ELSE fwd

\* The loop of count_kmers_in_sequences from sequence i on, with the table
\* so far: the count of the sequence, merged entry by entry.
RECURSIVE SumLoop(_, _, _, _, _)
SumLoop(seqs, L, revcom_mode, i, t) ==
    IF i > Len(seqs) THEN Returned(t)
    ELSE LET one == count_kmers_in_one_sequence(seqs[i], L, revcom_mode)
         IN IF one.ok
            THEN SumLoop(seqs, L, revcom_mode, i + 1, MergeTables(t, one.table))
            ELSE Panicked

\* if kmer_length > 31 { panic!(..) }, then the loop.
count_kmers_in_sequences(seqs, L, revcom_mode) ==
    IF L > MaxKmerLen THEN Panicked
    ELSE SumLoop(seqs, L, revcom_mode, 1, EmptyTable)

\* The sequences of length 0 to n over a set of symbols.
SeqsUpTo(syms, n) == UNION {[1..m -> syms] : m \in 0..n}

\* The sequences of the code's own test of counting.
TestSeqs ==
    {<<"A", "T", "G", "C", "A", "T">>, <<"A", "T", "G", "N", "C", "A", "T">>}

\* The sequences the counting functions are handed.
SeqInputs == SeqsUpTo(SeqSymbols, MaxSeqLen) \cup TestSeqs

\* The symbols of the sequences of a collection: two complementary bases
\* and a lower-case letter.
ListSymbols == {"A", "T", "a"}

\* The collections count_kmers_in_sequences is handed: up to MaxSeqs
\* sequences of up to MaxListSeqLen symbols.
SeqLists == SeqsUpTo(SeqsUpTo(ListSymbols, MaxListSeqLen), MaxSeqs)

\* The engine is handed a sequence and a k-mer length, with a start
\* position for the scan or a reverse-complement mode for the count, or a
\* collection of sequences, a k-mer length up to two over the limit and a
\* mode.
InitCount ==
    /\ InitEngine
    /\ \/ \E s \in SeqInputs : \E L \in 0..MaxCountLen :
            \/ \E start \in 0..(Len(s) + 1) :
                 kmer = [pc |-> "find_input", in |-> s, len |-> L,
                         start |-> start]
            \/ \E m \in BOOLEAN :
                 kmer = [pc |-> "count_input", in |-> s, len |-> L,
                         revcom_mode |-> m]
       \/ \E l \in SeqLists : \E L \in 0..(MaxKmerLen + 2) : \E m \in BOOLEAN :
            kmer = [pc |-> "sum_input", in |-> l, len |-> L, revcom_mode |-> m]

\* find_first_valid_kmer is applied to the sequence, the length and the
\* start position.
FindFirst ==
    /\ kmer.pc = "find_input"
    /\ kmer' = [pc |-> "found", in |-> kmer.in, len |-> kmer.len,
                start |-> kmer.start,
                out |-> find_first_valid_kmer(kmer.in, kmer.len, kmer.start)]
    /\ unchangedService

\* count_kmers_in_one_sequence is applied to the sequence, the length and
\* the mode; fwd is kmer_table as the forward pass left it.
CountOne ==
    /\ kmer.pc = "count_input"
    /\ kmer' = [pc |-> "counted", in |-> kmer.in, len |-> kmer.len,
                revcom_mode |-> kmer.revcom_mode,
                fwd |-> ForwardPass(kmer.in, kmer.len),
                out |-> count_kmers_in_one_sequence(kmer.in, kmer.len,
                                                    kmer.revcom_mode)]
    /\ unchangedService

\* count_kmers_in_sequences is applied to the collection, the length and
\* the mode.
CountAll ==
    /\ kmer.pc = "sum_input"
    /\ kmer' = [pc |-> "summed", in |-> kmer.in, len |-> kmer.len,
                revcom_mode |-> kmer.revcom_mode,
                out |-> count_kmers_in_sequences(kmer.in, kmer.len,
                                                 kmer.revcom_mode)]
    /\ unchangedService

NextCount == FindFirst \/ CountOne \/ CountAll

\* The scan and the count of one sequence applied to every sequence of the
\* bounded lengths.
SpecCount == InitCount /\ [][NextCount]_vars

(* ----------------------------- process_task ----------------------------- *)

\* to_ascii_uppercase on a symbol.
ToUpper(b) ==
    CASE b = "a" -> "A"
      [] b = "c" -> "C"
      [] b = "g" -> "G"
      [] b = "t" -> "T"
      [] OTHER -> b

\* load_fasta on a readable file: every record's sequence, in upper case.
load_fasta(records) ==
    [i \in 1..Len(records) |->
        [p \in 1..Len(records[i]) |-> ToUpper(records[i][p])]]

\* Variant: the counting follows the submitted revcom_mode.
TaskRevcomModeOfForm(form) == form.revcom_mode

\* The mode process_task counts with: the literal false; _form is not read.
TaskRevcomMode(form) == FALSE

\* The keys of a table whose count is the highest of the table.
MaxKeys(t) == {h \in DOMAIN t : \A g \in DOMAIN t : t[h] >= t[g]}

\* Variant: the k-mers are sorted by ascending count.
FirstKeysAscending(t) == {h \in DOMAIN t : \A g \in DOMAIN t : t[h] <= t[g]}

\* The keys that can come first in kmer_counts_vec after sort_by: the vector
\* is collected from the HashMap in its unspecified iteration order and the
\* sort is stable and compares the counts only, in descending order, so any
\* key of the highest count can be the first.
FirstKeys(t) == MaxKeys(t)

\* The table without a key.
Without(t, h) == [x \in DOMAIN t \ {h} |-> t[x]]

\* The sets of keys .take(n) can take from the sorted vector.
RECURSIVE TakeSorted(_, _)
TakeSorted(t, n) ==
    IF n = 0 \/ DOMAIN t = {} THEN {{}}
    ELSE UNION {{{h} \cup rest : rest \in TakeSorted(Without(t, h), n - 1)} :
                h \in FirstKeys(t)}

\* The HashMap<String, u32> collected from the taken entries: the k-mer
\* string of each hash, with the hash's count.
ResultOf(t, keys) ==
    [k \in {hash2kmer(h, TaskKmerLen) : h \in keys} |->
        t[CHOOSE h \in keys : hash2kmer(h, TaskKmerLen) = k]]

\* The ProcessForm of a submission: the two mode flags.
Forms == [revcom_mode : BOOLEAN, min_ham_dist_mode : BOOLEAN]

\* An input file: missing, not a readable FASTA file, or its records.
MissingFile == [kind |-> "missing"]

UnreadableFile == [kind |-> "unreadable"]

FastaFile(records) == [kind |-> "fasta", records |-> records]

\* kmer_counts of process_task for a readable file.
TaskCounts(f, form) ==
    count_kmers_in_sequences(load_fasta(f.records), TaskKmerLen,
                             TaskRevcomMode(form))

\* What process_task can end with for a file and a form: FileNotFound for a
\* missing file, a panic of load_fasta or of the counting, an Io error of
\* save_results_to_file, or Ok with the map of the taken k-mers.
process_task(f, form) ==
    IF f.kind = "missing" THEN {[kind |-> "task_err"]}
    ELSE IF f.kind = "unreadable" THEN {[kind |-> "panic"]}
    ELSE LET counts == TaskCounts(f, form)
         IN IF ~counts.ok THEN {[kind |-> "panic"]}
            ELSE {[kind |-> "task_err"]} \cup
                 {[kind |-> "ok", result |-> ResultOf(counts.table, keys)] :
                    keys \in TakeSorted(counts.table, TopCount)}

\* The symbols of the records of an input file.
FileSymbols == {"A", "C", "a"}

\* Files with longer records: two with as many distinct k-mers as
\* process_task keeps or fewer, and three with more: one with counts
\* 2, 2, 1, one with three k-mers of count 1, one of five records.
FileExamples ==
    {<<<<"A", "a", "A">>>>,
     <<<<"A", "C", "A">>, <<"C", "A">>>>,
     <<<<"A", "C", "A", "C", "C", "A">>>>,
     <<<<"A", "C", "C", "A">>>>,
     <<<<"A", "C">>, <<"a", "c">>, <<"C", "A">>, <<"C", "C", "C">>, <<"A", "A">>>>}

\* The input files of the tasks.
Files ==
    {MissingFile, UnreadableFile} \cup
    {FastaFile(r) : r \in SeqsUpTo(SeqsUpTo(FileSymbols, MaxFileSeqLen),
                                   MaxFileSeqs) \cup FileExamples}

\* A worker is about to run process_task on the file and the form of a task.
InitTask ==
    /\ InitEngine
    /\ \E f \in Files : \E form \in Forms :
         kmer = [pc |-> "task_input", file |-> f, form |-> form]

\* process_task runs to its end.
ProcessTask ==
    /\ kmer.pc = "task_input"
    /\ \E o \in process_task(kmer.file, kmer.form) :
         kmer' = [pc |-> "processed", file |-> kmer.file, form |-> kmer.form,
                  out |-> o]
    /\ unchangedService

NextTask == ProcessTask

\* process_task applied to every file and form of the bounded sizes.
SpecTask == InitTask /\ [][NextTask]_vars

(* ------------------------------ properties ----------------------------- *)

\* The positions of worker_process at which _permit is live.
HoldingPcs ==
    {"pop", "mark_get", "mark_save", "quota", "exec", "rm",
     "fin_get", "fin_getuser", "fin_saveuser", "fin_savetask"}

\* The positions inside update_task_result_user_quota.
FinPcs == {"fin_get", "fin_getuser", "fin_saveuser", "fin_savetask"}

\* The workers between a slot acquisition and the matching release.
Holders == {w \in Workers : permit[w]}

Terminal == {Completed, Failed}

\* The task records whose stored status is Processing.
ProcessingRecords ==
    {t \in TaskIds : tasks[t] # Null /\ tasks[t].status = Processing}

\* The order of the task lifecycle.
Rank(s) ==
    IF s = "none" THEN 0
    ELSE IF s = Queued THEN 1
    ELSE IF s = Processing THEN 2
    ELSE 3

Max0(x) == IF x > 0 THEN x ELSE 0

\* Worker w performs get_user_quota in this step.
QuotaStep(w) == pc[w] = "quota" /\ pc'[w] # "quota"

\* C1: at most max_concurrent_tasks workers are between a slot acquisition
\* and its release, the free permits are the rest, a worker pops, marks,
\* executes and finalizes only while it holds a slot, and a worker at the
\* acquisition cannot proceed while every slot is held.
SlotBound ==
    /\ Cardinality(Holders) <= maxConc
    /\ permits = maxConc - Cardinality(Holders)
    /\ \A w \in Workers :
         /\ pc[w] \in HoldingPcs => permit[w]
         /\ pc[w] \in {"acquire", "sleep", "dead", "off"} => ~permit[w]
         /\ (pc[w] = "acquire" /\ Cardinality(Holders) = maxConc)
               => ~ENABLED Acquire(w)

\* C1 witness: with one slot, a worker waits at the acquisition while the
\* other executes a task.
SlotBoundWitness ==
    /\ maxConc = 1
    /\ \E w, v \in Workers :
         pc[w] = "exec" /\ pc[v] = "acquire" /\ ~ENABLED Acquire(v)

\* C2 as stated: the number of task records stored as Processing is at most
\* max_concurrent_tasks.
ProcessingBound == Cardinality(ProcessingRecords) <= maxConc

\* C2 amended: the number of task records stored as Processing whose worker
\* still holds its slot is at most max_concurrent_tasks.
HeldProcessingBound ==
    Cardinality({t \in ProcessingRecords :
                    \E w \in Workers : permit[w] /\ cur[w] = t}) <= maxConc

\* C2 witness: every slot is taken by a worker whose task is stored as
\* Processing, while a record left Processing by an earlier attempt exists.
HeldProcessingWitness ==
    /\ Cardinality({t \in ProcessingRecords :
                       \E w \in Workers : permit[w] /\ cur[w] = t}) = maxConc
    /\ \E t \in ProcessingRecords : \A w \in Workers : cur[w] # t

\* C3: the statuses written for a task only move forward: Queued is never
\* written over a later status and nothing is written over Completed or
\* Failed, and the stored record shows the same.
StatusForward ==
    [][\A t \in TaskIds :
         /\ written'[t] # written[t] => Rank(written'[t]) > Rank(written[t])
         /\ (tasks[t] # Null /\ tasks'[t] # Null
               /\ tasks'[t].status # tasks[t].status)
              => Rank(tasks'[t].status) > Rank(tasks[t].status)]_vars

\* C3 witness: a task deleted while a worker had it was written back as
\* Processing and then finalized.
StatusForwardWitness ==
    \E t \in TaskIds :
      /\ tasks[t] # Null
      /\ tasks[t].status \in Terminal
      /\ ~resultDir[t]
      /\ hpc = "idle"

\* C4: get_user_quota yields max(0, quota - used_quota): when that is 0 the
\* task is treated as quota-exceeded, else it is the deadline.
RemainingIsClamped ==
    [][\A w \in Workers :
         QuotaStep(w) =>
           LET u == users[TaskUser(cur[w])]
               m == Max0(u.quota - u.used_quota)
           IN IF m = 0
              THEN pc'[w] = "fin_get" /\ res'[w] = "quota_exceeded"
              ELSE pc'[w] = "exec" /\ remaining'[w] = m]_vars

\* C5: a task dispatched when its user has no remaining quota fails with
\* QuotaExceeded: its computation is not started and the Reconciler is given
\* Failed.
NoQuotaNoRun ==
    /\ [][\A w \in Workers :
            (QuotaStep(w) /\ users[TaskUser(cur[w])].used_quota
                                >= users[TaskUser(cur[w])].quota)
              => /\ pc'[w] = "fin_get"
                 /\ res'[w] = "quota_exceeded"
                 /\ comp'[cur[w]] = "idle"]_vars
    /\ [](\A w \in Workers :
            res[w] = "quota_exceeded"
              => /\ comp[cur[w]] = "idle"
                 /\ ltask[w] # Null => ltask[w].status = Failed)

\* The deadline of t passed before its computation ended.
TimedOut(t) == comp[t] \in {"detached", "detached_done"}

\* remove_file was attempted on the input file of t and failed.
RmFailed(t) == rmCount[t] > 0 /\ file[t]

RECURSIVE SumElapsed(_)
SumElapsed(W) ==
    IF W = {} THEN 0
    ELSE LET w == CHOOSE x \in W : TRUE
         IN ElapsedSeconds(ltask[w]) + SumElapsed(W \ {w})

\* The usage the workers have stored for u on behalf of tasks whose terminal
\* status is not stored yet (between save_user and save_task).
PendingUsage(u) ==
    SumElapsed({w \in Workers : pc[w] = "fin_savetask" /\ ltask[w].user = u})

\* C6: a task whose deadline passed is finalized as Failed with the Timeout
\* condition (when the removal of its input file succeeded), and the
\* save_user of its finalize leaves the owner's used_quota larger by
\* completion time minus submission time.
TimeoutCharged ==
    /\ [](\A w \in Workers :
            (pc[w] \in FinPcs /\ TimedOut(cur[w]) /\ ~RmFailed(cur[w]))
              => res[w] = "timeout")
    /\ [](\A t \in TaskIds :
            (TimedOut(t) /\ written[t] \in Terminal) => written[t] = Failed)
    /\ [][\A w \in Workers :
            (pc[w] = "fin_saveuser" /\ pc'[w] = "fin_savetask"
               /\ TimedOut(cur[w]))
              => users'[ltask[w].user].used_quota
                   = users[ltask[w].user].used_quota
                       + ElapsedSeconds(ltask[w])]_vars

\* C7: the stored used_quota of a user is the sum of the elapsed times of the
\* tasks stored as Completed or Failed, plus those of the tasks whose usage
\* is stored and whose terminal status is about to be: each is added once.
UsageOnce ==
    \A u \in Users : users[u].used_quota = acct[u] + PendingUsage(u)

\* C8: no step lowers the stored used_quota of a user.
UsageMonotone ==
    [][\A u \in Users : users'[u].used_quota >= users[u].used_quota]_vars

\* C9: the removal of the input file of a task whose execution was started
\* is attempted exactly once: not while the timeout is pending, once between
\* the end of the timeout and the finalize, and never again.
RemovedOnce ==
    \A t \in TaskIds :
      /\ rmCount[t] <= 1
      /\ comp[t] = "idle" => rmCount[t] = 0
      /\ \A w \in Workers :
           cur[w] = t =>
             /\ pc[w] = "exec" => rmCount[t] = 0 /\ comp[t] = "running"
             /\ pc[w] = "rm" =>
                  /\ rmCount[t] = 0
                  /\ comp[t] \in {"done", "detached", "detached_done"}
                  /\ written[t] \notin Terminal
             /\ (pc[w] \in FinPcs /\ comp[t] # "idle") => rmCount[t] = 1
      /\ (comp[t] # "idle" /\ \A w \in Workers : cur[w] # t)
           => rmCount[t] = 1

\* C9 witness: a task whose deadline passed had one removal attempt and was
\* then stored as Failed.
RemovedOnceWitness ==
    \E t \in TaskIds :
      TimedOut(t) /\ rmCount[t] = 1 /\ tasks[t] # Null
        /\ tasks[t].status = Failed

\* C10: when the removal of the input file fails the worker goes on to the
\* finalize with an Io error, and the iteration ends with the task stored as
\* Failed with a completion time and no result, its usage stored, the slot
\* released and the worker back at the slot acquisition.
IoFinalized ==
    [][\A w \in Workers :
         /\ (pc[w] = "rm" /\ pc'[w] # "rm" /\ file'[cur[w]])
              => pc'[w] = "fin_get" /\ res'[w] = "io" /\ permit'[w]
         /\ (pc[w] \in FinPcs /\ RmFailed(cur[w]) /\ pc'[w] \notin FinPcs)
              => LET t == cur[w]
                 IN /\ pc'[w] = "acquire"
                    /\ ~permit'[w]
                    /\ tasks'[t] # Null
                    /\ tasks'[t].status = Failed
                    /\ tasks'[t].result = "None"
                    /\ tasks'[t].completion_time
                         >= tasks'[t].submission_time
                    /\ charged'[t]]_vars

\* C10 witness: the removal failed after a computation that had succeeded,
\* the task is stored as Failed with its usage, and no worker has it.
IoFinalizedWitness ==
    \E t \in TaskIds :
      /\ RmFailed(t)
      /\ comp[t] = "done"
      /\ tasks[t] # Null
      /\ tasks[t].status = Failed
      /\ tasks[t].completion_time >= 0
      /\ charged[t]
      /\ \A w \in Workers : cur[w] # t /\ pc[w] # "dead"

\* C11: the quota is read only for a task whose Processing status was
\* written, and a computation starts only in the step that read a quota,
\* for a task written as Processing, under the deadline that step derived.
MarkBeforeQuota ==
    /\ [](\A w \in Workers :
            pc[w] \in {"quota", "exec"} => written[cur[w]] = Processing)
    /\ [][\A t \in TaskIds :
            (comp[t] = "idle" /\ comp'[t] # "idle")
              => \E w \in Workers :
                   /\ QuotaStep(w)
                   /\ cur[w] = t
                   /\ written[t] = Processing
                   /\ users[TaskUser(t)] # Null
                   /\ pc'[w] = "exec"
                   /\ remaining'[w] > 0]_vars

\* C11 witness: a computation runs for a task stored as Processing under a
\* deadline read from the user's record.
MarkBeforeQuotaWitness ==
    \E w \in Workers :
      /\ pc[w] = "exec"
      /\ comp[cur[w]] = "running"
      /\ tasks[cur[w]].status = Processing
      /\ remaining[w] > 0

\* C12: a panic of the computation leaves the worker alive and holding its
\* slot, the task goes through the removal of its file to the finalize as a
\* failure, and the iteration ends with that task stored as Failed without a
\* result, no other record touched, and the worker back at the acquisition.
PanicIsolated ==
    [][\A w \in Workers :
         /\ (pc[w] = "exec" /\ res'[w] = "panic")
              => pc'[w] = "rm" /\ permit'[w]
         /\ (pc[w] = "rm" /\ res[w] = "panic" /\ pc'[w] # "rm")
              => /\ pc'[w] = "fin_get"
                 /\ FinalStatus(res'[w]) = Failed
                 /\ FinalResult(res'[w]) = "None"
         /\ (pc[w] \in FinPcs /\ res[w] = "panic" /\ pc'[w] \notin FinPcs)
              => LET t == cur[w]
                 IN /\ pc'[w] = "acquire"
                    /\ ~permit'[w]
                    /\ tasks'[t].status = Failed
                    /\ tasks'[t].result = "None"
                    /\ \A o \in TaskIds \ {t} : tasks'[o] = tasks[o]]_vars

\* C12 witness: the worker whose computation panicked is about to store the
\* task as Failed.
PanicIsolatedWitness ==
    \E w \in Workers :
      /\ pc[w] = "fin_savetask"
      /\ res[w] = "panic"
      /\ ltask[w].status = Failed
      /\ ltask[w].result = "None"

\* C13: a worker is always somewhere in its loop: at the acquisition, asleep
\* before a retry, or inside an iteration that leads back to the acquisition.
WorkerLoops ==
    \A w \in Workers : pc[w] \in {"off", "acquire", "sleep"} \cup HoldingPcs

\* C14: a pop that yields no task, on an empty queue or on a store error,
\* gives the slot back in the same step and sends the worker to sleep; no
\* sleeping worker holds a slot, and the sleep leads to the acquisition.
SleepWithoutSlot ==
    /\ [](\A w \in Workers : pc[w] = "sleep" => ~permit[w])
    /\ [][\A w \in Workers :
            /\ (pc[w] = "pop" /\ pc'[w] # "pop" /\ cur'[w] = NoTask)
                 => /\ pc'[w] = "sleep"
                    /\ ~permit'[w]
                    /\ permits' = permits + 1
            /\ (pc[w] = "sleep" /\ pc'[w] # "sleep")
                 => pc'[w] = "acquire"]_vars

\* C14 witness: with one slot, a worker sleeps after an empty pop while the
\* other worker holds the slot and executes.
SleepWithoutSlotWitness ==
    /\ maxConc = 1
    /\ \E w, v \in Workers :
         pc[w] = "sleep" /\ ~permit[w] /\ pc[v] = "exec" /\ permit[v]

\* C15: when update_task_status fails (store error, or no record), the
\* worker goes to the finalize without a deadline and without a computation,
\* and it gives the slot back when the iteration ends.
MarkFailureAborts ==
    /\ [][\A w \in Workers :
            /\ (pc[w] = "mark_get" /\ pc'[w] \notin {"mark_get", "mark_save"})
                 => /\ pc'[w] = "fin_get"
                    /\ res'[w] \in {"redis", "not_found"}
                    /\ remaining'[w] = 0
                    /\ comp' = comp
            /\ (pc[w] = "mark_save" /\ pc'[w] \notin {"mark_save", "quota"})
                 => /\ pc'[w] = "fin_get"
                    /\ res'[w] = "redis"
                    /\ remaining'[w] = 0
                    /\ comp' = comp
            /\ (pc[w] \in FinPcs /\ pc'[w] \notin FinPcs)
                 => pc'[w] = "acquire" /\ ~permit'[w]]_vars
    /\ [](\A w \in Workers :
            (pc[w] \in FinPcs /\ written[cur[w]] # Processing)
              => comp[cur[w]] = "idle" /\ remaining[w] = 0 /\ permit[w])

\* C15 witness: the record was deleted before the worker could mark it; the
\* worker is in the finalize with a not-found error and nothing was started.
MarkFailureWitness ==
    \E w \in Workers :
      /\ pc[w] = "fin_get"
      /\ res[w] = "not_found"
      /\ tasks[cur[w]] = Null
      /\ written[cur[w]] = Queued
      /\ comp[cur[w]] = "idle"

\* C16: a stored record has a result only when its status is Completed.
ResultOnlyCompleted ==
    \A t \in TaskIds :
      (tasks[t] # Null /\ tasks[t].status # Completed)
        => tasks[t].result = "None"

\* C16 witness: one record is Completed with its result, another is Failed
\* without one.
ResultOnlyCompletedWitness ==
    \E t, o \in TaskIds :
      /\ tasks[t] # Null /\ tasks[t].status = Completed
      /\ tasks[t].result = "Some"
      /\ tasks[o] # Null /\ tasks[o].status = Failed
      /\ tasks[o].result = "None"

\* The task ids in the queue.
QueuedIds == {queue[i] : i \in DOMAIN queue}

\* C17: a task id is returned by at most one pop and held by at most one
\* worker; an id in the queue was never popped and its last written status
\* is Queued (so no Failed task is in the queue); only the submission adds
\* an id, the one it just created; and a computation is started only for a
\* task that has none yet.
PoppedOnce ==
    /\ [](\A t \in TaskIds :
            /\ pops[t] <= 1
            /\ Cardinality({w \in Workers : cur[w] = t}) <= 1
            /\ Cardinality({i \in DOMAIN queue : queue[i] = t}) <= 1
            /\ t \in QueuedIds => pops[t] = 0 /\ written[t] = Queued)
    /\ [][\A t \in TaskIds :
            /\ (t \in QueuedIds' /\ t \notin QueuedIds)
                 => hpc = "s_queue" /\ t = htask /\ pops[t] = 0
            /\ (comp'[t] = "running" /\ comp[t] # "running")
                 => comp[t] = "idle"]_vars

\* C17 witness: a task was popped once, ended Failed, and is neither in the
\* queue nor with a worker.
PoppedOnceWitness ==
    \E t \in TaskIds :
      /\ pops[t] = 1
      /\ tasks[t] # Null /\ tasks[t].status = Failed
      /\ t \notin QueuedIds
      /\ \A w \in Workers : cur[w] # t

\* C18: update_task_status and update_task_result_user_quota on an id
\* without a record end with the not-found error and leave users, tasks and
\* queue as they were; the finalize of a task whose owner has no record ends
\* the same way; a missing task record is created only by a submission, and
\* no task of an owner without a record is stored as Completed or Failed.
NotFoundLeavesStore ==
    /\ [][\A w \in Workers :
            /\ (pc[w] = "mark_get" /\ pc'[w] # "mark_get"
                  /\ tasks[cur[w]] = Null)
                 => /\ pc'[w] = "fin_get" /\ res'[w] = "not_found"
                    /\ UNCHANGED <<users, tasks, queue>>
            /\ (pc[w] = "fin_get" /\ pc'[w] # "fin_get"
                  /\ tasks[cur[w]] = Null)
                 => /\ pc'[w] = "acquire"
                    /\ UNCHANGED <<users, tasks, queue>>
            /\ (pc[w] = "fin_getuser" /\ pc'[w] # "fin_getuser"
                  /\ users[ltask[w].user] = Null)
                 => /\ pc'[w] = "acquire"
                    /\ UNCHANGED <<users, tasks, queue>>]_vars
    /\ [][\A t \in TaskIds :
            (tasks[t] = Null /\ tasks'[t] # Null) => hpc = "s_savetask"]_vars
    /\ [](\A t \in TaskIds :
            (tasks[t] # Null /\ users[tasks[t].user] = Null)
              => tasks[t].status \notin Terminal)

\* C18 witness: the task was marked, its owner has no record, and the
\* worker is through with it: the record is still Processing.
NotFoundWitness ==
    \E t \in TaskIds :
      /\ pops[t] = 1
      /\ tasks[t] # Null
      /\ tasks[t].status = Processing
      /\ users[tasks[t].user] = Null
      /\ \A w \in Workers : cur[w] # t

\* C19: when delete_task has run to its end, the task record is gone and the
\* id is no longer in the task set of the task's owner, whoever asked; and a
\* deletion of a task that has no record goes through and changes neither
\* the task records nor any user's task set.
DeleteRemoves ==
    [][/\ (hpc = "d_del" /\ hpc' = "idle")
            => /\ tasks'[htask] = Null
               /\ htask \notin users'[TaskUser(htask)].tasks
       /\ (hpc = "d_gettask" /\ hpc' # "d_gettask" /\ tasks[htask] = Null)
            => hpc' = "d_del" /\ tasks' = tasks
       /\ (hpc = "d_saveuser" /\ hpc' # "d_saveuser" /\ tasks[htask] = Null
             /\ \A u \in Users : htask \notin users[u].tasks)
            => \A u \in Users : users'[u].tasks = users[u].tasks]_vars

\* C20: hash2kmer applied to kmer2hash(x) and the length of x gives x back,
\* for every x over A, C, G, T of the bounded lengths.
HashRoundTrip == kmer.pc = "unhashed" => kmer.out = kmer.in

\* C20 witness: the round trip of TCG, whose hash is 54 (the value of the
\* code's own test of hash2kmer, less its leading A).
HashRoundTripWitness ==
    /\ kmer.pc = "unhashed"
    /\ kmer.in = <<"T", "C", "G">>
    /\ kmer.hash = 54
    /\ kmer.out = <<"T", "C", "G">>

\* The value of a k-mer read as a number in base 4, first base first:
\* the sum over the positions i of code(x[i]) * 4^(L-1-i).
RECURSIVE PositionalValue(_, _)
PositionalValue(x, i) ==
    IF i > Len(x) THEN 0
    ELSE LET code == IF x[i] = "A" THEN 0
                     ELSE IF x[i] = "C" THEN 1
                     ELSE IF x[i] = "G" THEN 2
                     ELSE 3
         IN code * 4^(Len(x) - i) + PositionalValue(x, i + 1)

\* C21: kmer2hash of a sequence over A, C, G, T is the sum of
\* code(x[i]) * 4^(L-1-i) with A=0, C=1, G=2, T=3, most-significant base
\* first.
HashIsPositional ==
    kmer.pc = "hashed" => kmer.hash = PositionalValue(kmer.in, 1)

\* C21 witness: ATCG has been hashed to 54, or CATGC to 313.
HashIsPositionalWitness ==
    /\ kmer.pc = "hashed"
    /\ \/ kmer.in = <<"A", "T", "C", "G">> /\ kmer.hash = 54
       \/ kmer.in = <<"C", "A", "T", "G", "C">> /\ kmer.hash = 313

\* The input of the hash functions has a symbol that is no base.
HasInvalidSymbol(x) == \E i \in 1..Len(x) : x[i] \notin Bases

\* C22: kmer2hash does not return a hash for an input that contains a
\* symbol outside A, C, G, T at any position: it returns one only for an
\* input of bases.
InvalidBaseFails ==
    /\ (kmer.pc = "hashed" => ~HasInvalidSymbol(kmer.in))
    /\ (kmer.pc = "input" /\ HasInvalidSymbol(kmer.in)
          => ENABLED KmerHash /\ kmer2hash(kmer.in) = InvalidBase)

\* C22 witness: kmer2hash has panicked on ANGTC, on a sequence whose only
\* invalid symbol is the last, and on one whose only invalid symbol is the
\* first.
InvalidBaseFailsWitness ==
    /\ kmer.pc = "panicked"
    /\ kmer.in \in {<<"A", "N", "G", "T", "C">>, <<"A", "C", "N">>,
                    <<"N", "C", "G">>}

\* C23: for every length L and every hash h < 4^L, revcom_hash(h, L) is
\* kmer2hash(reverse_complement(hash2kmer(h, L))).
RevcomHashAgrees ==
    kmer.pc = "revcom" => kmer.rc = kmer.viaKmer

\* C23 witness: revcom_hash of CATG (228, its own reverse complement) and
\* of A (0, whose reverse complement T is 3), both as the code's tests have
\* them.
RevcomHashAgreesWitness ==
    /\ kmer.pc = "revcom"
    /\ \/ kmer.len = 4 /\ kmer.hash = 228 /\ kmer.rc = 228
       \/ kmer.len = 1 /\ kmer.hash = 0 /\ kmer.rc = 3

\* The start positions (counted from 0), at or after a position, of the
\* windows of length L of a sequence that hold only A, C, G, T.
ValidWindows(s, L, from) ==
    {i \in from..(Len(s) - L) : \A p \in (i + 1)..(i + L) : s[p] \in Bases}

\* The hash of the window of length L that starts at position i.
WindowHash(s, L, i) == PositionalValue(SubSeq(s, i + 1, i + L), 1)

Least(S) == CHOOSE x \in S : \A y \in S : x <= y

\* C25: for every sequence, every L >= 1 and every start position,
\* find_first_valid_kmer returns the hash and the exclusive end index of the
\* leftmost all-valid window of length L at or after the start position, and
\* returns nothing, without failing, when there is none (a sequence shorter
\* than L and the empty sequence included).
FindFirstLeftmost ==
    (kmer.pc = "found" /\ kmer.len >= 1) =>
        LET W == ValidWindows(kmer.in, kmer.len, kmer.start)
        IN kmer.out = IF W = {} THEN None
                      ELSE Some(WindowHash(kmer.in, kmer.len, Least(W)),
                                Least(W) + kmer.len)

\* The table that maps each hash to the number of all-valid windows of
\* length L of the sequence that hash to it.
WindowTable(s, L) ==
    LET W == ValidWindows(s, L, 0)
    IN [h \in {WindowHash(s, L, i) : i \in W} |->
          Cardinality({i \in W : WindowHash(s, L, i) = h})]

\* C24: for every upper-case sequence and every L >= 1,
\* count_kmers_in_one_sequence without reverse complement returns exactly
\* the table of the all-valid windows hashed from scratch.
CountMatchesWindows ==
    (/\ kmer.pc = "counted"
     /\ ~kmer.revcom_mode
     /\ kmer.len >= 1
     /\ \A p \in 1..Len(kmer.in) : IsAsciiUppercase(kmer.in[p]))
    => kmer.out = Returned(WindowTable(kmer.in, kmer.len))

\* C26: with reverse-complement mode set and L >= 1, the returned table
\* holds for every hash h the forward count of h plus the forward count of
\* revcom_hash(h, L) (absent entries count 0); so h and its reverse
\* complement have the same count and a palindromic k-mer has twice its
\* forward count.
RevcomCountsSymmetric ==
    (/\ kmer.pc = "counted"
     /\ kmer.revcom_mode
     /\ kmer.len >= 1
     /\ kmer.out.ok)
    => /\ kmer.fwd.ok
       /\ \A h \in Hashes(kmer.len) :
            LET rc == revcom_hash(h, kmer.len)
            IN /\ Get(kmer.out.table, h)
                    = Get(kmer.fwd.table, h) + Get(kmer.fwd.table, rc)
               /\ Get(kmer.out.table, h) = Get(kmer.out.table, rc)
               /\ rc = h => Get(kmer.out.table, h) = 2 * Get(kmer.fwd.table, h)

\* C26 witness: ATAT counted with L = 2 and reverse complement: the
\* palindrome AT (3) was seen twice and counts 4, TA (12), a palindrome
\* too, counts 2; or ACA with L = 2: AC (1), CA (4) and their reverse
\* complements GT (11), TG (14) count 1 each.
RevcomCountsWitness ==
    /\ kmer.pc = "counted"
    /\ kmer.revcom_mode
    /\ kmer.len = 2
    /\ kmer.out.ok
    /\ \/ /\ kmer.in = <<"A", "T", "A", "T">>
          /\ kmer.out.table = (3 :> 4) @@ (12 :> 2)
       \/ /\ kmer.in = <<"A", "C", "A">>
          /\ kmer.out.table = (1 :> 1) @@ (4 :> 1) @@ (11 :> 1) @@ (14 :> 1)

\* The table of a sequence as the contract has it: the table of its windows,
\* with the reverse-complement counts added in reverse-complement mode.
WindowTableWith(s, L, m) ==
    LET fwd == WindowTable(s, L)
        keys == DOMAIN fwd \cup {revcom_hash(h, L) : h \in DOMAIN fwd}
    IN IF m
       THEN [h \in keys |-> Get(fwd, h) + Get(fwd, revcom_hash(h, L))]
       ELSE fwd

\* The entry-wise sum of the tables of the sequences of a collection from
\* sequence i on.
RECURSIVE SumOfTables(_, _, _, _)
SumOfTables(seqs, L, m, i) ==
    IF i > Len(seqs) THEN EmptyTable
    ELSE MergeTables(WindowTableWith(seqs[i], L, m),
                     SumOfTables(seqs, L, m, i + 1))

\* C27: count_kmers_in_sequences fails for every L over the limit without
\* returning a table, and for L up to the limit and upper-case sequences
\* returns the entry-wise sum of the per-sequence tables.
SumOrLengthFailure ==
    kmer.pc = "summed" =>
        /\ kmer.len > MaxKmerLen => ~kmer.out.ok
        /\ (/\ kmer.len >= 1
            /\ kmer.len <= MaxKmerLen
            /\ \A i \in 1..Len(kmer.in) : \A p \in 1..Len(kmer.in[i]) :
                 IsAsciiUppercase(kmer.in[i][p]))
           => kmer.out = Returned(SumOfTables(kmer.in, kmer.len,
                                              kmer.revcom_mode, 1))

\* C28: a counting request with L = 0 is rejected: neither
\* count_kmers_in_one_sequence nor count_kmers_in_sequences returns a table.
ZeroLengthRejected ==
    (kmer.pc \in {"counted", "summed"} /\ kmer.len = 0) => ~kmer.out.ok

\* The k-mer strings of the length process_task counts with.
TaskKmers == [1..TaskKmerLen -> Bases]

\* The number of windows of the records, read in upper case, that are the
\* k-mer k.
RECURSIVE Occurrences(_, _, _)
Occurrences(records, k, i) ==
    IF i > Len(records) THEN 0
    ELSE Cardinality({p \in 0..(Len(records[i]) - Len(k)) :
                        \A j \in 1..Len(k) : ToUpper(records[i][p + j]) = k[j]})
         + Occurrences(records, k, i + 1)

Exhausted(u) == users[u] # Null /\ users[u].used_quota >= users[u].quota

\* C31: once a user's used_quota has reached its quota it stays so, whatever
\* is finalized for the user afterwards, and from then on no computation of
\* a task of that user is started: the task's get_user_quota step ends in
\* QuotaExceeded and the task is finalized Failed.
ExhaustedStaysExhausted ==
    /\ [][\A u \in Users : Exhausted(u) => Exhausted(u)']_vars
    /\ [][\A t \in TaskIds :
            (Exhausted(TaskUser(t)) /\ comp[t] = "idle")
               => comp'[t] = "idle"]_vars
    /\ [][\A w \in Workers :
            (QuotaStep(w) /\ Exhausted(TaskUser(cur[w])))
               => pc'[w] = "fin_get" /\ res'[w] = "quota_exceeded"]_vars

\* The tasks whose spawned process_task has not returned yet.
Computing == {t \in TaskIds : comp[t] \in {"running", "detached"}}

\* C32: at most max_concurrent_tasks computations are in progress, and each
\* of them belongs to a task that a worker holding a slot is executing: the
\* computation of a timed-out task is not running any more once the timeout
\* has returned, so none outlives the finalize and the release of the slot.
ComputationsBounded ==
    /\ Cardinality(Computing) <= maxConc
    /\ \A t \in Computing :
         \E w \in Holders : cur[w] = t /\ pc[w] = "exec"

\* The workers inside the timeout of a task of user u.
Executing(u) == {w \in Workers : pc[w] = "exec" /\ TaskUser(cur[w]) = u}

RECURSIVE SumRemaining(_)
SumRemaining(W) ==
    IF W = {} THEN 0
    ELSE LET w == CHOOSE x \in W : TRUE
         IN remaining[w] + SumRemaining(W \ {w})

\* C33: the deadlines of the tasks of one user that execute at the same time
\* add up to at most the user's remaining quota at the dispatch of the first
\* of them; stated for a user to whom no usage was charged yet, whose
\* remaining quota was the whole quota at every dispatch so far.
DeadlinesWithinQuota ==
    \A u \in Users :
       (users[u] # Null /\ users[u].used_quota = 0 /\ acct[u] = 0)
          => SumRemaining(Executing(u)) <= users[u].quota - users[u].used_quota

\* C34: a task whose stored status is Completed or Failed has no input file
\* on disk any more: every finalize was preceded by the removal of the file.
FinalizedWithoutFile ==
    \A t \in TaskIds :
       (tasks[t] # Null /\ tasks[t].status \in Terminal) => ~file[t]

\* C35: a computation that returned a result before the deadline keeps that
\* result through the removal of the input file, whether the removal
\* succeeds or fails, and the task is finalized Completed with the result.
ResultSurvivesRemoval ==
    /\ [][\A w \in Workers :
            (pc[w] = "rm" /\ res[w] = "ok" /\ pc'[w] # "rm")
               => res'[w] = "ok"]_vars
    /\ [](\A w \in Workers :
            (pc[w] \in {"fin_getuser", "fin_saveuser", "fin_savetask"}
               /\ res[w] = "ok")
               => ltask[w].status = Completed /\ ltask[w].result = "Some")

\* One step of worker_process run by worker w.
WorkerStep(w) ==
    \/ Acquire(w)
    \/ Pop(w)
    \/ Wake(w)
    \/ MarkGet(w)
    \/ MarkSave(w)
    \/ Quota(w)
    \/ ExecDone(w)
    \/ ExecTimeout(w)
    \/ Rm(w)
    \/ FinGet(w)
    \/ FinGetUser(w)
    \/ FinSaveUser(w)
    \/ FinSaveTask(w)

\* The runtime keeps scheduling every worker's task: a worker that can take a
\* step (the store, the timer and the spawned computation reply) takes one.
WorkersFair == \A w \in Workers : WF_vars(WorkerStep(w))

\* The worker pool and the submission handler on a store that never fails,
\* with workers that keep running.
SpecFair == InitReliable /\ [][Next]_vars /\ WorkersFair

\* C36: under weak fairness of the workers, with a store that does not fail
\* and no deletion, every task in the queue is eventually popped and its
\* stored status eventually is Completed or Failed.
EnqueuedIsFinalized ==
    \A t \in TaskIds :
       (t \in QueuedIds) ~>
          (pops[t] = 1 /\ tasks[t] # Null /\ tasks[t].status \in Terminal)

\* A worker that holds a slot is working on task t.
HeldTask(t) ==
    \E w \in Workers : permit[w] /\ cur[w] = t /\ pc[w] \in HoldingPcs

\* C37 as stated: every task whose stored status is Processing is held by a
\* worker that holds a slot.
ProcessingIsHeld == \A t \in ProcessingRecords : HeldTask(t)

\* C37 amended: Processing is written only by a worker that holds a slot, and
\* a record stored as Processing loses that worker only when the attempt
\* ends without a stored terminal status: update_task_result_user_quota
\* returned on a store error, or the worker died in get_user_quota.
ProcessingHeldUnlessAbandoned ==
    /\ [][\A t \in TaskIds :
            (t \in ProcessingRecords' /\ t \notin ProcessingRecords)
               => \E w \in Workers :
                     /\ permit[w] /\ permit'[w]
                     /\ cur[w] = t /\ pc[w] = "mark_save"]_vars
    /\ [][\A t \in TaskIds :
            (t \in ProcessingRecords /\ t \in ProcessingRecords'
               /\ HeldTask(t) /\ ~HeldTask(t)')
               => \E w \in Workers :
                     /\ cur[w] = t
                     /\ \/ (pc[w] \in FinPcs /\ pc'[w] = "acquire")
                        \/ (pc[w] = "quota" /\ pc'[w] = "dead")]_vars
    /\ [](\A t \in ProcessingRecords :
            \/ HeldTask(t)
            \/ pops[t] = 1 /\ written[t] = Processing /\ comp[t] # "running")

\* C37 witness: one record was left Processing by a finalize that ended on a
\* store error, with every worker alive, while another record is Processing
\* under a worker that holds a slot.
ProcessingAbandonedWitness ==
    /\ \A w \in Workers : pc[w] # "dead"
    /\ \E t, o \in ProcessingRecords :
         /\ ~HeldTask(t) /\ pops[t] = 1
         /\ HeldTask(o)

\* Worker w is finalizing an attempt that was aborted because the Processing
\* status of its task could not be persisted: update_task_status failed and
\* no Processing was stored for the task.
MarkAborted(w) ==
    /\ pc[w] \in FinPcs
    /\ res[w] \in {"redis", "not_found"}
    /\ written[cur[w]] = Queued

\* C38: the steps a worker takes for an attempt aborted because Processing
\* could not be persisted leave the owner's used_quota and the task's stored
\* record as they were.
AbortLeavesStore ==
    [][\A w \in Workers :
         (MarkAborted(w) /\ pc'[w] # pc[w])
            => /\ users'[TaskUser(cur[w])] = users[TaskUser(cur[w])]
               /\ tasks'[cur[w]] = tasks[cur[w]]]_vars

\* C39: without a deletion, a task id in a user's stored task set stays in
\* it: no step of a worker or of the submission takes an id out.
TaskSetKept ==
    [][\A u \in Users :
         (users[u] # Null /\ users'[u] # Null)
            => users[u].tasks \subseteq users'[u].tasks]_vars

\* C40: a task record that was stored and has been deleted stays absent: no
\* step of a worker writes it back, so getTask returns nothing for its id in
\* every later state.
DeletedStaysDeleted ==
    [][\A t \in TaskIds :
         (written[t] # "none" /\ tasks[t] = Null) => tasks'[t] = Null]_vars

====
